---- MODULE Spec2Model ----
(***************************************************************************)
(* prism: animated corner plots (src/prism.py).                            *)
(*                                                                         *)
(* corner() computes per-parameter extents, bin edges and y-limits from a  *)
(* T x N x dim sample cube, builds the initial figure with                 *)
(* triangle.corner(), thins the cube and returns a FuncAnimation whose     *)
(* callback iterate_corner()/update_corner() redraws the figure for one    *)
(* frame.  anim_to_html() encodes an animation through a temporary file.   *)
(*                                                                         *)
(* Conventions.  Python indices are 0-based, sequences here are 1-based:   *)
(* frame i of the code is element i+1.  Sample values are integers; every  *)
(* quotient the code computes in floating point is kept as an exact        *)
(* fraction <<num, den>> with den > 0 (real arithmetic, no rounding).      *)
(* None is the record [some |-> FALSE, val |-> <<>>].                      *)
(***************************************************************************)
EXTENDS Integers, Sequences, FiniteSets, TLC

VARIABLES
    data_cube,      \* corner(data_cube, ...): the T x N x dim input array
    labels,         \* corner(labels=...)
    truths,         \* corner(truths=...)
    fps,            \* corner(fps=...)
    rough_length,   \* corner(rough_length=...), a fraction <<p, q>>
    pc,             \* "start" | "built" | "failed" | "bare"
    fig,            \* the figure: its dim x dim grid of axes
    frames,         \* fargs: the (possibly thinned) data_cube
    bins,           \* fargs: bins
    ymaxs,          \* fargs: ymaxs
    extremes,       \* corner(): extremes (range= of the figure)
    encoded,        \* hasattr(anim, '_encoded_video')
    tmpfiles,       \* names of the temporary files that exist
    err,            \* the exception the last call raised, or "none"
    last,           \* the frame index of the last update call, -1 before any
    nextId          \* identity of the next line artist created

vars == <<data_cube, labels, truths, fps, rough_length, pc, fig, frames, bins,
          ymaxs, extremes, encoded, tmpfiles, err, last, nextId>>

(***************************************************************************)
(* Bounds of the model.                                                    *)
(***************************************************************************)
MaxVal == 1          \* the largest sample value is MaxVal (Spec), MaxVal + 1 (SpecBins)
MaxLines == 3        \* no update call starts with more lines on axes[0, 0]
MaxTmp == 1          \* no anim_to_html call starts with more leaked files
MaxFrames == 6       \* SpecThin: frame counts 1..MaxFrames
MaxFps == 3          \* SpecThin: frame rates 1..MaxFps
MaxRough == 3        \* SpecThin: rough_length numerators 1..MaxRough

\* (T, N, dim) shapes of the cubes of Spec and of SpecBins
Shapes == {<<1, 2, 1>>, <<2, 2, 2>>}
BinShapes == {<<2, 3, 1>>}

None == [some |-> FALSE, val |-> <<>>]
Some(v) == [some |-> TRUE, val |-> v]

final_bins == 50

(***************************************************************************)
(* Array helpers (numpy indexing and reductions).                          *)
(***************************************************************************)
\* the sequence itself, held as an explicit tuple
Tuple(s) == s \o <<>>

NFrames(cube) == Len(cube)
NDim(cube) == Len(cube[1][1])

\* data[:, x]
Column(data, x) == Tuple([n \in 1..Len(data) |-> data[n][x]])

SeqMin(s) == CHOOSE v \in {s[k] : k \in 1..Len(s)} : \A k \in 1..Len(s) : v <= s[k]
SeqMax(s) == CHOOSE v \in {s[k] : k \in 1..Len(s)} : \A k \in 1..Len(s) : v >= s[k]

\* data_cube[..., x].min(), data_cube[..., x].max()
CubeMin(cube, x) ==
    LET vs == {cube[t][n][x] : t \in 1..Len(cube), n \in 1..Len(cube[1])}
    IN  CHOOSE v \in vs : \A u \in vs : v <= u
CubeMax(cube, x) ==
    LET vs == {cube[t][n][x] : t \in 1..Len(cube), n \in 1..Len(cube[1])}
    IN  CHOOSE v \in vs : \A u \in vs : v >= u

\* data_cube[-1]
FinalFrame(cube) == cube[Len(cube)]

\* seq[::k] for k >= 1
StrideSkipFirst(seq, k) == [j \in 1..(Len(seq) \div k) |-> seq[j * k]]
Stride(seq, k) == [j \in 1..((Len(seq) + k - 1) \div k) |-> seq[(j - 1) * k + 1]]

(***************************************************************************)
(* corner(): extents, bins, y-limits (lines 107-118).                      *)
(***************************************************************************)
\* dx is zero: the floor division of line 113 yields no finite number
Degenerate(cube, x) ==
    SeqMax(Column(FinalFrame(cube), x)) = SeqMin(Column(FinalFrame(cube), x))

Extent(cube, x) == <<CubeMin(cube, x), CubeMax(cube, x)>>

\* nbins = np.diff(extremes[x])[0] // dx, dx = final width / final_bins
NBins(cube, x) ==
    LET w == SeqMax(Column(FinalFrame(cube), x)) - SeqMin(Column(FinalFrame(cube), x))
        e == Extent(cube, x)
    IN  ((e[2] - e[1]) * final_bins) \div w

\* np.linspace(lo, hi, num): num points lo + k (hi - lo)/(num - 1), as
\* numerators over the common denominator den = num - 1
Linspace(lo, hi, num) ==
    [den |-> num - 1,
     nums |-> Tuple([k \in 1..num |-> lo * (num - 1) + (k - 1) * (hi - lo)])]

\* e[:-1]
DropLast(e) == [den |-> e.den, nums |-> SubSeq(e.nums, 1, Len(e.nums) - 1)]

\* these_bins = np.linspace(extremes[x][0], extremes[x][1], nbins + 1)[:-1]
BinEdges(cube, x) ==
    DropLast(Linspace(Extent(cube, x)[1], Extent(cube, x)[2], NBins(cube, x) + 1))

\* sample v lies in bin k of edges: [e_k, e_k+1), the last bin closed
InBin(v, edges, k) ==
    /\ v * edges.den >= edges.nums[k]
    /\ IF k = Len(edges.nums) - 1 THEN v * edges.den <= edges.nums[k + 1]
                                  ELSE v * edges.den < edges.nums[k + 1]

\* the bin of edges that counts sample v, 0 when none does (np.histogram
\* searches the edges; the quotient below is only where the search starts)
BinOf(v, edges) ==
    LET nb == Len(edges.nums) - 1
        near == IF nb >= 1 /\ edges.nums[2] > edges.nums[1]
                THEN ((v * edges.den - edges.nums[1]) \div (edges.nums[2] - edges.nums[1])) + 1
                ELSE 1
        cands == {near - 1, near} \cap (1..nb)
    IN  IF \E k \in cands : InBin(v, edges, k)
        THEN CHOOSE k \in cands : InBin(v, edges, k)
        ELSE IF \E k \in 1..nb : InBin(v, edges, k)
        THEN CHOOSE k \in 1..nb : InBin(v, edges, k)
        ELSE 0

\* (n * np.diff(bins)).sum(), times edges.den: every counted sample adds
\* the width of its bin; idx[n] is the bin of sample n
RECURSIVE WeightedSum(_, _, _)
WeightedSum(idx, edges, n) ==
    IF n = 0 THEN 0
    ELSE (IF idx[n] = 0 THEN 0 ELSE edges.nums[idx[n] + 1] - edges.nums[idx[n]])
         + WeightedSum(idx, edges, n - 1)

\* the bars of a normed histogram: bar k has height n_k / (n * diff(bins)).sum(),
\* kept as nums[k] / den for the bins k that count a sample (every other bar
\* of the nbins bars is 0); den = 0 when no sample is counted (0/0, nan)
Bars(idx, edges) ==
    [nbins |-> Len(edges.nums) - 1,
     nums |-> [k \in {idx[n] : n \in 1..Len(idx)} \ {0} |->
                  edges.den * Cardinality({n \in 1..Len(idx) : idx[n] = k})],
     den |-> WeightedSum(idx, edges, Len(idx))]

\* np.histogram(data, bins=edges, normed=True)[0]
Histogram(data, edges) ==
    Bars(Tuple([n \in 1..Len(data) |-> BinOf(data[n], edges)]), edges)

\* max(hist)
Peak(hist) ==
    IF DOMAIN hist.nums = {} THEN 0
    ELSE CHOOSE v \in {hist.nums[k] : k \in DOMAIN hist.nums} :
             \A k \in DOMAIN hist.nums : v >= hist.nums[k]

\* ymaxs.append(1.1*max(hist))
Headroom(h) == <<11 * Peak(h), 10 * h.den>>
YMax(cube, x) == Headroom(Histogram(Column(FinalFrame(cube), x), BinEdges(cube, x)))

\* a <= b for fractions with positive denominators
FracLeq(a, b) == a[1] * b[2] <= b[1] * a[2]

(***************************************************************************)
(* The figure.  An axis holds its patches (histogram bars), its lines, its *)
(* x-limits and the top of its y-limits.  A line artist keeps its identity *)
(* id for as long as it exists.                                            *)
(***************************************************************************)
EmptyAxis == [patches |-> <<>>, lines |-> <<>>, xlim |-> <<0, 1>>, ytop |-> <<1, 1>>]

\* a dim x dim grid of empty axes (no corner plot was drawn on it)
BareFigure(dim) == [x \in 1..dim |-> [y \in 1..dim |-> EmptyAxis]]

\* a histogram drawn on an axis: one step outline holding the bars of h
Artist(origin, h) == [origin |-> origin, nbins |-> h.nbins, nums |-> h.nums, den |-> h.den]

Line(id, kind, xdata, ydata) == [id |-> id, kind |-> kind, xdata |-> xdata, ydata |-> ydata]

\* the identity of the k-th line triangle.corner() draws on axes[x, y]
BuildId(dim, x, y, k) == ((x - 1) * dim + (y - 1)) * 4 + k

\* fig = triangle.corner(data_cube[0], truths=truths, range=extremes,
\*                       plot_datapoints=True, ...); axes[x, x].set_ylim(top=ymaxs[x]):
\* a histogram of the first frame on the diagonal (the constructor's own 20
\* bins over range), the data points as the first line of every
\* lower-triangle axis, and the truth lines after them
BuiltFigure(cube, tr, ext, tops) ==
    LET dim == NDim(cube)
        first == cube[1]
    IN  [x \in 1..dim |-> [y \in 1..dim |->
            IF x = y THEN
                [patches |-> <<Artist("triangle.corner",
                                      Histogram(Column(first, x),
                                                Linspace(ext[x][1], ext[x][2], 21)))>>,
                     lines |-> IF tr.some
                               THEN <<Line(BuildId(dim, x, x, 1), "axvline", <<tr.val[x]>>, <<>>)>>
                               ELSE <<>>,
                     xlim |-> ext[x],
                     ytop |-> tops[x]]
            ELSE IF y < x THEN
                [patches |-> <<>>,
                 lines |-> <<Line(BuildId(dim, x, y, 1), "plot", Column(first, y), Column(first, x))>>
                           \o (IF tr.some
                               THEN <<Line(BuildId(dim, x, y, 2), "axvline", <<tr.val[y]>>, <<>>),
                                      Line(BuildId(dim, x, y, 3), "axhline", <<>>, <<tr.val[x]>>),
                                      Line(BuildId(dim, x, y, 4), "plot", <<tr.val[y]>>, <<tr.val[x]>>)>>
                               ELSE <<>>),
                 xlim |-> ext[y],
                 ytop |-> <<1, 1>>]
            ELSE EmptyAxis]]

(***************************************************************************)
(* update_corner(data, fig, bins, truths, ymaxs, **kwargs), lines 155-194. *)
(* st = [fig, err, nextId] is threaded through the two loops; once an      *)
(* exception is raised the remaining iterations do not run.                *)
(* call = [data, bins, truths, ymaxs, nan_raises]; bins = None stands for  *)
(* the default bins=50, nan_raises for whether set_ylim rejects a nan.     *)
(***************************************************************************)
\* while len(ax.patches) > 0: ax.patches[0].remove()
KeepPatches(patches) == patches
ClearPatches(patches) == <<>>

\* ax.hist(data[:, x], range=xlim, bins=bins[x], normed=True, histtype="step");
\* an integer bins has no bins[x] (TypeError): bins equal bins over range
HistArtist(call, ax, x) ==
    Artist("hist", Histogram(Column(call.data, x),
                             IF call.bins.some THEN call.bins.val[x]
                             ELSE Linspace(ax.xlim[1], ax.xlim[2], final_bins + 1)))

\* lines 171-185 for axes[x, x] = ax, patch being what ax.hist draws
DiagDraw(st, call, x, ax, patch) ==
    IF ~call.ymaxs.some /\ patch.den = 0 /\ call.nan_raises
    THEN [st EXCEPT !.fig[x][x].patches = Append(ClearPatches(ax.patches), patch),
                    !.err = "ValueError"]
    ELSE IF ~call.truths.some
    THEN [st EXCEPT !.fig[x][x].patches = Append(ClearPatches(ax.patches), patch),
                    !.fig[x][x].ytop = IF call.ymaxs.some THEN call.ymaxs.val[x]
                                       ELSE <<Peak(patch), patch.den>>]
    ELSE IF x > Len(call.truths.val)
    THEN [st EXCEPT !.fig[x][x].patches = Append(ClearPatches(ax.patches), patch),
                    !.fig[x][x].ytop = IF call.ymaxs.some THEN call.ymaxs.val[x]
                                       ELSE <<Peak(patch), patch.den>>,
                    !.err = "IndexError"]
    ELSE [st EXCEPT !.fig[x][x].patches = Append(ClearPatches(ax.patches), patch),
                    !.fig[x][x].ytop = IF call.ymaxs.some THEN call.ymaxs.val[x]
                                       ELSE <<Peak(patch), patch.den>>,
                    !.fig[x][x].lines =
                        Append(ax.lines, Line(st.nextId, "axvline", <<call.truths.val[x]>>, <<>>)),
                    !.nextId = st.nextId + 1]

\* one iteration of the loop over the diagonal (lines 163-185)
DiagStep(st, call, x) ==
    IF st.err # "none" THEN st
    ELSE DiagDraw(st, call, x, st.fig[x][x], HistArtist(call, st.fig[x][x], x))

RECURSIVE DiagLoop(_, _, _, _)
DiagLoop(st, call, x, dim) ==
    IF x > dim THEN st ELSE DiagLoop(DiagStep(st, call, x), call, x + 1, dim)

\* line = ax.get_lines()[0]; line.set_data(data[:, y], data[:, x])
SetDataSwapped(lines, data, x, y) ==
    [lines EXCEPT ![1] = [@ EXCEPT !.xdata = Column(data, x), !.ydata = Column(data, y)]]
SetData(lines, data, x, y) ==
    [lines EXCEPT ![1] = [@ EXCEPT !.xdata = Column(data, y), !.ydata = Column(data, x)]]

ScatterStepSkipping(st, call, x, y) ==
    IF st.err # "none" \/ Len(st.fig[x][y].lines) = 0 THEN st
    ELSE [st EXCEPT !.fig[x][y].lines = SetData(@, call.data, x, y)]

\* one iteration of the loops over the lower triangle (lines 188-192)
ScatterStep(st, call, x, y) ==
    IF st.err # "none" THEN st
    ELSE IF Len(st.fig[x][y].lines) = 0
    THEN [st EXCEPT !.err = "IndexError"]
    ELSE [st EXCEPT !.fig[x][y].lines = SetData(@, call.data, x, y)]

RECURSIVE ScatterLoop(_, _, _, _, _)
ScatterLoop(st, call, x, y, dim) ==
    IF x > dim THEN st
    ELSE IF y >= x THEN ScatterLoop(st, call, x + 1, 1, dim)
    ELSE ScatterLoop(ScatterStep(st, call, x, y), call, x, y + 1, dim)

update_corner(st, call) ==
    LET dim == Len(call.data[1])
    IN  ScatterLoop(DiagLoop(st, call, 1, dim), call, 2, 1, dim)

\* iterate_corner(i, data_cube, fig, bins, truths, ymaxs, hist_kwargs)
iterate_corner(i, cube, st, b, tr, ym) ==
    update_corner(st, [data |-> cube[i + 1], bins |-> Some(b), truths |-> tr,
                       ymaxs |-> Some(ym), nan_raises |-> FALSE])

(***************************************************************************)
(* corner(), lines 95-152.                                                 *)
(***************************************************************************)
\* thin_factor = (nframes//rough_length)//fps, rough_length = rl[1]/rl[2]
ThinFactor(nframes, rl, f) == ((nframes * rl[2]) \div rl[1]) \div f

\* if thin_factor > 1: data_cube = data_cube[::thin_factor]
ThinCube(cube, k) == IF k > 1 THEN Stride(cube, k) ELSE cube

\* the exceptions np.linspace can raise at line 114 when dx is zero for
\* parameter x: nbins is nan (int(nan): ValueError) or, for a positive
\* extent on some numpy versions, inf (int(inf): OverflowError)
LinspaceErrors(cube, x) ==
    IF Extent(cube, x)[1] = Extent(cube, x)[2]
    THEN {"ValueError"} ELSE {"ValueError", "OverflowError"}

FirstDegenerate(cube) ==
    CHOOSE x \in 1..NDim(cube) :
        /\ Degenerate(cube, x)
        /\ \A z \in 1..(x - 1) : ~Degenerate(cube, z)

\* triangle.corner() reads labels[i] and truths[i] for every i < dim
\* (IndexError on a shorter list) and never looks at their lengths
ConstructorRaises(dim, lb, tr) ==
    \/ lb.some /\ Len(lb.val) < dim
    \/ tr.some /\ Len(tr.val) < dim

Corner ==
    /\ pc = "start"
    /\ LET dim == NDim(data_cube) IN
       IF \E x \in 1..dim : Degenerate(data_cube, x)
       THEN /\ pc' = "failed"
            /\ err' \in LinspaceErrors(data_cube, FirstDegenerate(data_cube))
            /\ UNCHANGED <<fig, frames, bins, ymaxs, extremes, nextId>>
       ELSE IF ConstructorRaises(dim, labels, truths)
       THEN /\ pc' = "failed"
            /\ err' = "IndexError"
            /\ UNCHANGED <<fig, frames, bins, ymaxs, extremes, nextId>>
       ELSE /\ pc' = "built"
            /\ err' = "none"
            /\ extremes' = [x \in 1..dim |-> Extent(data_cube, x)]
            /\ bins' = [x \in 1..dim |-> BinEdges(data_cube, x)]
            /\ ymaxs' = [x \in 1..dim |-> YMax(data_cube, x)]
            /\ fig' = BuiltFigure(data_cube, truths, extremes', ymaxs')
            /\ nextId' = BuildId(dim, dim, dim, 4) + 1
            /\ frames' = ThinCube(data_cube,
                                  ThinFactor(NFrames(data_cube), rough_length, fps))
    /\ UNCHANGED <<data_cube, labels, truths, fps, rough_length, encoded, tmpfiles, last>>

(***************************************************************************)
(* The animation engine calls iterate_corner(i, *fargs) for a frame i of   *)
(* range(len(data_cube)), in any order (playback, replay, scrubbing).       *)
(***************************************************************************)
\* the figure as the call left it, and what the call raised
Returns(r) ==
    /\ fig' = r.fig
    /\ err' = r.err
    /\ nextId' = r.nextId

IterateCorner(i) ==
    /\ pc = "built"
    /\ Len(fig[1][1].lines) < MaxLines
    /\ Returns(iterate_corner(i, frames, [fig |-> fig, err |-> "none", nextId |-> nextId],
                               bins, truths, ymaxs))
    /\ last' = i
    /\ UNCHANGED <<data_cube, labels, truths, fps, rough_length, pc, frames, bins,
                   ymaxs, extremes, encoded, tmpfiles>>

(***************************************************************************)
(* update_corner() called directly, with its default bins and ymaxs, on a  *)
(* grid of axes that corner() did not build.                               *)
(***************************************************************************)
Subplots ==
    /\ pc = "start"
    /\ pc' = "bare"
    /\ fig' = BareFigure(NDim(data_cube))
    /\ err' = "none"
    /\ UNCHANGED <<data_cube, labels, truths, fps, rough_length, frames, bins, ymaxs,
                   extremes, encoded, tmpfiles, last, nextId>>

UpdateCorner(i, nan_raises) ==
    /\ pc = "bare"
    /\ Len(fig[1][1].lines) < MaxLines
    /\ Returns(update_corner([fig |-> fig, err |-> "none", nextId |-> nextId],
                              [data |-> data_cube[i + 1], bins |-> None, truths |-> truths,
                               ymaxs |-> None, nan_raises |-> nan_raises]))
    /\ last' = i
    /\ UNCHANGED <<data_cube, labels, truths, fps, rough_length, pc, frames, bins,
                   ymaxs, extremes, encoded, tmpfiles>>

(***************************************************************************)
(* anim_to_html(anim), lines 46-57.  anim.save() draws the frames in order *)
(* through iterate_corner and encodes them; the encoder may fail after any *)
(* number of frames.                                                       *)
(***************************************************************************)
RECURSIVE SaveFrames(_, _, _)
SaveFrames(st, i, upto) ==
    IF i >= upto \/ st.err # "none" THEN st
    ELSE SaveFrames([iterate_corner(i, frames, st, bins, truths, ymaxs) EXCEPT !.last = i],
                    i + 1, upto)

\* the files left when the with-block of line 47 is left, normally or by
\* an exception: NamedTemporaryFile deletes f on close
KeepOnError(files, f, raised) == IF raised THEN files ELSE files \ {f}
AfterWith(files, f, raised) == files \ {f}

\* lines 47-55 once anim.save() has drawn its frames (st) and has raised
\* (fails, or st.err) or returned
Encode(st, f, fails) ==
    /\ fig' = st.fig
    /\ nextId' = st.nextId
    /\ last' = st.last
    /\ err' = IF st.err # "none" THEN st.err
              ELSE IF fails THEN "SaveError" ELSE "none"
    /\ tmpfiles' = AfterWith(tmpfiles \cup {f}, f, st.err # "none" \/ fails)
    /\ encoded' = (st.err = "none" /\ ~fails)

AnimToHtml(drawn, fails) ==
    /\ pc = "built"
    /\ Cardinality(tmpfiles) < MaxTmp
    /\ Len(fig[1][1].lines) < MaxLines
    /\ IF encoded
       THEN /\ drawn = 0 /\ ~fails
            /\ err' = "none"
            /\ UNCHANGED <<fig, nextId, last, encoded, tmpfiles>>
       ELSE /\ fails \/ drawn = Len(frames)
            /\ Encode(SaveFrames([fig |-> fig, err |-> "none", nextId |-> nextId,
                                  last |-> last], 0, drawn),
                      Cardinality(tmpfiles) + 1, fails)
    /\ UNCHANGED <<data_cube, labels, truths, fps, rough_length, pc, frames, bins,
                   ymaxs, extremes>>

(***************************************************************************)
(* Inputs and specifications.                                              *)
(***************************************************************************)
Cubes(shapes, vals) ==
    UNION {[1..sh[1] -> [1..sh[2] -> [1..sh[3] -> vals]]] : sh \in shapes}

\* None, or a list of dim - 1, dim or dim + 1 entries
OptLists(dim) ==
    {None} \cup {Some([k \in 1..n |-> (k - 1) % (MaxVal + 1)]) : n \in (dim - 1)..(dim + 1)}

\* timestep t (0-based) holds the samples 0 and t + 1 of one parameter: no
\* two timesteps agree
Ramp(T) == [t \in 1..T |-> <<<<0>>, <<t>>>>]

InitRest ==
    /\ pc = "start"
    /\ fig = <<>>
    /\ frames = <<>>
    /\ bins = <<>>
    /\ ymaxs = <<>>
    /\ extremes = <<>>
    /\ encoded = FALSE
    /\ tmpfiles = {}
    /\ err = "none"
    /\ last = -1
    /\ nextId = 1

Init ==
    /\ data_cube \in Cubes(Shapes, {0, MaxVal})
    /\ labels \in OptLists(NDim(data_cube))
    /\ truths \in OptLists(NDim(data_cube))
    /\ fps = 1
    /\ rough_length \in {<<1, 1>>, <<10, 1>>}
    /\ InitRest

InitBins ==
    /\ data_cube \in Cubes(BinShapes, 0..(MaxVal + 1))
    /\ labels = None
    /\ truths = None
    /\ fps = 1
    /\ rough_length \in {<<1, 1>>, <<10, 1>>}
    /\ InitRest

InitThin ==
    /\ data_cube \in {Ramp(T) : T \in 1..MaxFrames}
    /\ labels = None
    /\ truths = None
    /\ fps \in 1..MaxFps
    /\ rough_length \in {<<p, q>> : p \in 1..MaxRough, q \in 1..2}
    /\ InitRest

Next ==
    \/ Corner
    \/ \E i \in 0..(Len(frames) - 1) : IterateCorner(i)
    \/ Subplots
    \/ \E i \in 0..(NFrames(data_cube) - 1), nan_raises \in BOOLEAN : UpdateCorner(i, nan_raises)
    \/ \E drawn \in 0..Len(frames), fails \in BOOLEAN : AnimToHtml(drawn, fails)

Spec == Init /\ [][Next]_vars
SpecBins == InitBins /\ [][Next]_vars
SpecThin == InitThin /\ [][Next]_vars

(***************************************************************************)
(* Properties.                                                             *)
(***************************************************************************)
Dim == NDim(data_cube)
Mismatch(arg) == arg.some /\ Len(arg.val) # Dim

\* floor(T / rough_length) and floor(that / fps), as the largest integers
\* below the quotients
FloorOverRough ==
    CHOOSE a \in 0..(Len(data_cube) * rough_length[2]) :
        /\ a * rough_length[1] <= Len(data_cube) * rough_length[2]
        /\ (a + 1) * rough_length[1] > Len(data_cube) * rough_length[2]
SpecThinFactor ==
    CHOOSE k \in 0..FloorOverRough : k * fps <= FloorOverRough /\ (k + 1) * fps > FloorOverRough

\* the two worked examples: 300 frames are all kept, 3000 frames are
\* thinned by 10 to the 300 timesteps 0, 10, ..., 2990
ThinExamples ==
    /\ ThinFactor(300, <<10, 1>>, 30) = 1
    /\ ThinCube([t \in 1..300 |-> t - 1], ThinFactor(300, <<10, 1>>, 30))
         = [t \in 1..300 |-> t - 1]
    /\ ThinFactor(3000, <<10, 1>>, 30) = 10
    /\ ThinCube([t \in 1..3000 |-> t - 1], ThinFactor(3000, <<10, 1>>, 30))
         = [j \in 1..300 |-> 10 * (j - 1)]

\* C1: corner() keeps the timesteps 0, k, 2k, ... below T when
\* k = floor(floor(T / rough_length) / fps) exceeds 1, and every timestep
\* otherwise; T = 300 keeps 300 frames and T = 3000 keeps every 10th.
C1_Thinning ==
    /\ ThinExamples
    /\ pc = "built" =>
         IF SpecThinFactor > 1
         THEN /\ Len(frames) = Cardinality({t \in 0..(Len(data_cube) - 1) : t % SpecThinFactor = 0})
              /\ \A j \in 1..Len(frames) :
                    /\ (j - 1) * SpecThinFactor < Len(data_cube)
                    /\ frames[j] = data_cube[(j - 1) * SpecThinFactor + 1]
         ELSE frames = data_cube

C1_Witness ==
    /\ pc = "built"
    /\ SpecThinFactor > 1
    /\ Len(frames) >= 2
    /\ Len(frames) < Len(data_cube)
    /\ (Len(data_cube) - 1) % SpecThinFactor # 0

\* C2: when some parameter has zero spread in the final timestep, corner()
\* fails with an explicit degenerate-distribution error and returns no
\* animation.
C2_DegenerateError ==
    (pc \in {"built", "failed"} /\ \E x \in 1..Dim : Degenerate(data_cube, x))
        => (pc = "failed" /\ err = "DegenerateDistributionError")

\* the figure a single update call for frame i leaves, starting from the
\* figure corner() built
SingleUpdate(i) ==
    iterate_corner(i, frames,
                   [fig |-> BuiltFigure(data_cube, truths, extremes, ymaxs),
                    err |-> "none", nextId |-> BuildId(Dim, Dim, Dim, 4) + 1],
                   bins, truths, ymaxs)

SameBarsAndPoints(one) ==
    /\ \A x \in 1..Dim :
          /\ fig[x][x].patches = one.fig[x][x].patches
          /\ Len(fig[x][x].patches) = 1
    /\ \A x \in 1..Dim : \A y \in 1..(x - 1) :
          /\ fig[x][y].lines[1].xdata = one.fig[x][y].lines[1].xdata
          /\ fig[x][y].lines[1].ydata = one.fig[x][y].lines[1].ydata

\* C3: after any sequence of update calls on the figure corner() built, the
\* histogram bars of every diagonal axis and the points of every
\* lower-triangle axis are those a single update call with the last frame
\* index leaves: one histogram per diagonal axis, none from an earlier call.
C3_HistoryIndependent ==
    (pc = "built" /\ last >= 0) => SameBarsAndPoints(SingleUpdate(last))

C3_Witness ==
    /\ pc = "built"
    /\ Dim = 2
    /\ truths.some
    /\ Len(fig[1][1].lines) >= 3
    /\ last = 0
    /\ Len(frames) = 2
    /\ Column(frames[1], 1) # Column(frames[2], 1)
    /\ fig[1][1].patches[1].origin = "hist"
    /\ fig[1][1].patches # SingleUpdate(1).fig[1][1].patches

\* C4: with truths given, after any number of update calls every diagonal
\* axis holds the reference lines it holds after one call.
C4_TruthLineIdempotent ==
    (pc = "built" /\ truths.some /\ last >= 0) =>
        \A x \in 1..Dim : Len(fig[x][x].lines) = Len(SingleUpdate(last).fig[x][x].lines)

\* C5: after the update for frame i, the first line of every lower-triangle
\* axis (row x, column y) is the line corner() built, holding
\* (cube[i, :, y], cube[i, :, x]).
C5_ScatterRoundTrip ==
    (pc = "built" /\ last >= 0) =>
        \A x \in 1..Dim : \A y \in 1..(x - 1) :
            /\ fig[x][y].lines[1].xdata = [n \in 1..Len(frames[last + 1]) |-> frames[last + 1][n][y]]
            /\ fig[x][y].lines[1].ydata = [n \in 1..Len(frames[last + 1]) |-> frames[last + 1][n][x]]
            /\ fig[x][y].lines[1].id = BuildId(Dim, x, y, 1)
            /\ fig[x][y].lines[1].kind = "plot"

C5_Witness ==
    /\ pc = "built"
    /\ Dim = 2
    /\ last = 1
    /\ fig[2][1].lines[1].xdata # fig[2][1].lines[1].ydata
    /\ fig[2][1].lines[1].xdata = Column(data_cube[2], 1)
    /\ fig[2][1].lines[1].xdata # Column(data_cube[1], 1)
    /\ fig[2][1].lines[1].ydata # Column(data_cube[1], 2)

\* C6: when labels or truths is given with a length other than dim,
\* corner() fails and returns no animation.
C6_LengthMismatchFails ==
    (pc \in {"built", "failed"} /\ (Mismatch(labels) \/ Mismatch(truths))) => pc = "failed"

\* C7: an update that meets a lower-triangle axis without lines raises; it
\* does not return normally.
C7_MissingLineRaises ==
    (pc = "bare" /\ last >= 0 /\ \E x \in 1..Dim : \E y \in 1..(x - 1) : Len(fig[x][y].lines) = 0)
        => err # "none"

C7_Witness ==
    /\ pc = "bare"
    /\ last >= 0
    /\ Dim = 2
    /\ Len(fig[2][1].lines) = 0
    /\ Len(fig[1][1].patches) = 1
    /\ Len(fig[2][2].patches) = 1
    /\ err = "IndexError"

\* C8: every parameter gets an extent with min <= max, a positive bin
\* count nbins = floor(extent width / (final width / 50)), and bin edges
\* that start at the extent's min, increase strictly and yield nbins bins.
C8_BinEdges ==
    pc = "built" =>
        \A x \in 1..Dim :
            /\ extremes[x][1] <= extremes[x][2]
            /\ NBins(data_cube, x) > 0
            /\ bins[x].nums[1] = extremes[x][1] * bins[x].den
            /\ \A k \in 1..(Len(bins[x].nums) - 1) : bins[x].nums[k] < bins[x].nums[k + 1]
            /\ Histogram(Column(FinalFrame(data_cube), x), bins[x]).nbins = NBins(data_cube, x)

\* C9: the histogram the update draws for the final frame of the animation
\* peaks at or below the y-limit, which is 1.1 times the peak of the final
\* timestep's histogram.
C9_FinalFrameFits ==
    (pc = "built" /\ last = Len(frames) - 1) =>
        \A x \in 1..Dim :
            /\ fig[x][x].ytop = ymaxs[x]
            /\ FracLeq(<<Peak(fig[x][x].patches[1]), fig[x][x].patches[1].den>>, fig[x][x].ytop)

\* C10: no temporary file of anim_to_html outlives the call, also when
\* anim.save() raises; the exception then reaches the caller and nothing
\* is cached.
C10_TempFileReleased ==
    /\ tmpfiles = {}
    /\ err = "SaveError" => (pc = "built" /\ ~encoded)

C10_Witness ==
    /\ err = "SaveError"
    /\ last = Len(frames) - 1
    /\ tmpfiles = {}
    /\ ~encoded

====
